---- MODULE Spec2Model ----
(***************************************************************************)
(* A model of the creator-outreach negotiation engine:                     *)
(*   auto_negotiator.py  reply processing, offer calculator, follow-ups    *)
(*   email_service.py    send_email, send_outreach_email                   *)
(*   database.py         outreach records, processed_emails, accounts      *)
(*   main.py             the manual negotiate endpoint                     *)
(*                                                                         *)
(* Specifications:                                                         *)
(*   Spec      one negotiator process; the endpoints act between its runs  *)
(*   SpecConc  two negotiator processes on one mailbox and database        *)
(*   SpecCalc  single calls of calculate_counter_offer                     *)
(*   SpecDeploy  one negotiator process on a host in some time zone,       *)
(*             with database calls that may raise                          *)
(*   SpecBulk  one negotiator process and the bulk send of the mailing     *)
(*             list                                                        *)
(*   SpecQuiet a creator whose replies name no amount, every send          *)
(*             succeeding                                                  *)
(*   SpecTwo   one negotiator process, two outreach records of one creator *)
(*   SpecScrape  the scheduler's scrape job and the scrape endpoint        *)
(*                                                                         *)
(* Money is in whole dollars.  The calculator's fractional steps           *)
(* (0.85 * budget_min, ...) are kept exact by carrying amounts as a        *)
(* numerator over a denominator.                                           *)
(***************************************************************************)
EXTENDS Integers, Sequences, FiniteSets, TLC

VARIABLES
    outreach,         \* outreach_emails rows: id -> record
    lastOutbound,     \* id -> hours since the newest outbound email_threads row of a
                      \*       'sent' row; -1 when there is none or the row is 'replied'
    processed,        \* processed_emails.message_id values
    account,          \* the email_accounts row: emails_sent_today, daily_limit
    campaign,         \* the campaigns row: budget_min, max_offer
    inbox,            \* messages in the mailbox: records [id, from]
    wk,               \* negotiator processes: worker -> position and locals
    visits,           \* message id -> times the inbox loop has fetched it
    delivered,        \* message id -> [sends, outbound]: replies sent for it, and logged to the thread
    lastOp,           \* the operation running or just run: what it did
    utcOffset,        \* hours the host's local clock is ahead of UTC
    followups,        \* id -> follow-up emails send_email has delivered for the row
    scraper_running,  \* main.scraper_running
    scrape,           \* the scheduler's job and the scrape endpoint: position, runs started
    calcArgs,         \* arguments of one call of calculate_counter_offer
    calcResult        \* the dict it returned, or NoResult before the call

dbVars == <<outreach, lastOutbound, processed, account, campaign>>
engineVars == <<outreach, lastOutbound, processed, account, campaign, inbox, wk,
                visits, delivered, lastOp, utcOffset, followups>>
calcVars == <<calcArgs, calcResult>>
scrapeVars == <<scraper_running, scrape>>

vars == <<outreach, lastOutbound, processed, account, campaign, inbox, wk,
          visits, delivered, lastOp, utcOffset, followups, scraper_running, scrape,
          calcArgs, calcResult>>

-----------------------------------------------------------------------------
(* Bounds of the model *)

MaxAskK == 72      \* asks of the calculator runs are 0, 10, ..., 10 * MaxAskK
MaxRound == 7      \* largest negotiation_round handed to the calculator
MaxVisits == 2     \* a message stays in the search window for this many passes
MaxAge == 7        \* hours since the last outbound mail are counted up to here
MaxScrapes == 3    \* scrapes one caller starts in a run of the model
MaxDailyLimit == 4 \* SpecDeploy: daily_limit is DailyLimit..MaxDailyLimit
DailyLimit == 3    \* email_accounts.daily_limit of the sending account

-----------------------------------------------------------------------------
(* Values *)

None == <<>>                \* Python's None for an optional amount
Some(x) == <<x>>
Val(opt) == opt[1]

NoResult == [action |-> "none", offer |-> 0]

Min(a, b) == IF a <= b THEN a ELSE b

-----------------------------------------------------------------------------
(* The offer calculator (auto_negotiator.calculate_counter_offer) *)

\* A variant that rounds n/d down.
RoundHalfEven_floor(n, d) == n \div d

\* Python's round(): the nearest integer to n/d, ties to the even one.
RoundHalfEven(n, d) ==
    LET f == n \div d
        r == n % d
    IN  IF 2 * r < d THEN f
        ELSE IF 2 * r > d THEN f + 1
        ELSE IF f % 2 = 0 THEN f ELSE f + 1

\* A variant that cuts n/d to whole dollars and leaves out the step of 50.
RoundTo50_truncate(n, d) == n \div d

\* round(new_offer / 50) * 50 for new_offer = n/d dollars.
RoundTo50(n, d) == RoundHalfEven(n, 50 * d) * 50

\* offer_steps[i], times 100.
OfferStep100(budget_min, max_offer, i) ==
    CASE i = 0 -> 85 * budget_min
      [] i = 1 -> 100 * budget_min
      [] i = 2 -> 115 * budget_min
      [] i = 3 -> 130 * budget_min
      [] i = 4 -> 90 * max_offer
      [] OTHER -> 100 * max_offer

OfferStepsLen == 6

\* base_offer, times 100.
BaseOffer100(budget_min, max_offer, negotiation_round) ==
    OfferStep100(budget_min, max_offer, Min(negotiation_round, OfferStepsLen - 1))

\* budget_min values of the model's campaigns whose double-precision product
\* budget_min * 1.15 lies below the exact product (100 * 1.15 is
\* 114.99999999999999): an ask equal to the exact product is then not
\* <= base_offer.  Every other product the calculator forms for the model's
\* campaigns compares and rounds as the exact value does.
FloatShort115 == {100, 110, 400, 650}

\* creator_ask <= base_offer
AskWithinBase(ask, budget_min, max_offer, negotiation_round) ==
    LET i == Min(negotiation_round, OfferStepsLen - 1)
        base100 == OfferStep100(budget_min, max_offer, i)
    IN  IF i = 2 /\ budget_min \in FloatShort115
        THEN 100 * ask < base100
        ELSE 100 * ask <= base100

\* `if creator_ask:` is false for None and for 0.
HasAsk(creator_ask) == creator_ask # None /\ Val(creator_ask) # 0

calculate_counter_offer(current_offer, creator_ask, budget_min, max_offer, negotiation_round) ==
    LET base100 == BaseOffer100(budget_min, max_offer, negotiation_round)
    IN  IF HasAsk(creator_ask)
        THEN LET ask == Val(creator_ask)
             IN  IF ask <= max_offer
                 THEN IF AskWithinBase(ask, budget_min, max_offer, negotiation_round)
                      THEN [action |-> "accept", offer |-> ask]
                      ELSE IF 100 * ask <= 95 * max_offer
                      THEN \* min((base_offer + creator_ask) / 2, max_offer), rounded
                           [action |-> "counter",
                            offer |-> IF base100 + 100 * ask <= 200 * max_offer
                                      THEN RoundTo50(base100 + 100 * ask, 200)
                                      ELSE RoundTo50(max_offer, 1)]
                      ELSE [action |-> "accept", offer |-> ask]
                 ELSE IF 100 * ask <= 130 * max_offer
                      THEN [action |-> "final_offer", offer |-> max_offer]
                      ELSE [action |-> "decline", offer |-> max_offer]
        ELSE LET new_offer == IF base100 <= 100 * max_offer
                              THEN RoundTo50(base100, 100)
                              ELSE RoundTo50(max_offer, 1)
             IN  IF new_offer >= max_offer
                 THEN [action |-> "final_offer", offer |-> max_offer]
                 ELSE [action |-> "counter", offer |-> new_offer]

-----------------------------------------------------------------------------
(* Records, stages and the stored state *)

\* A variant of the list with 'rejected' left out.
TERMINAL_STATES_without_rejected == {"deal_closed", "rejected_over_budget", "declined"}

TERMINAL_STATES == {"deal_closed", "rejected", "rejected_over_budget", "declined"}

is_terminal_state(o) == o.negotiation_stage \in TERMINAL_STATES

\* A row of outreach_emails as create_outreach inserts it.
NewOutreach(recipient) ==
    [status |-> "draft", negotiation_stage |-> "initial", current_offer |-> 0,
     negotiation_rounds |-> 0, followup_count |-> 0, last_followup_at |-> FALSE,
     last_inbound_at |-> FALSE, recipient_email |-> recipient]

\* str.lower() on the addresses of the model.
Lower(addr) ==
    CASE addr = "A@X.com" -> "a@x.com"
      [] addr = "Z@Z.com" -> "z@z.com"
      [] OTHER -> addr

\* The rows get_outreach_emails(status) returns match when the lowered
\* recipient equals the cleaned sender; 'sent' rows are searched before
\* 'replied' rows, newer rows (higher id) first.  0 when nothing matches.
find_matching_outreach(from_email) ==
    LET clean == Lower(from_email)
        hits(st) == { o \in DOMAIN outreach :
                        /\ outreach[o].status = st
                        /\ Lower(outreach[o].recipient_email) = clean }
        newest(S) == CHOOSE o \in S : \A p \in S : p <= o
    IN  IF hits("sent") # {} THEN newest(hits("sent"))
        ELSE IF hits("replied") # {} THEN newest(hits("replied"))
        ELSE 0

\* database.is_email_processed(message_id, None): `if message_id:` skips the
\* lookup for an empty id.
is_email_processed(message_id) ==
    IF message_id # "" THEN message_id \in processed ELSE FALSE

\* email_service.get_available_account(): the account, if under its limit.
get_available_account == account.emails_sent_today < account.daily_limit

\* get_pending_outreach(): sent and replied rows not in a terminal stage,
\* each as the dict read at that moment.
get_pending_outreach ==
    { [id |-> o, row |-> outreach[o]] :
        o \in { p \in DOMAIN outreach :
                  /\ outreach[p].status \in {"sent", "replied"}
                  /\ ~is_terminal_state(outreach[p]) } }

MaxFollowups == 2
FollowupMinHours == 2
FollowupMaxHours == 6

\* hours_since of should_send_followup: datetime.now(), the host's local
\* time, minus MAX(sent_at), which SQLite's CURRENT_TIMESTAMP wrote in UTC.
\* `age` is the time that has passed since the row was written.
hours_since(age) == age + utcOffset

\* A variant without the limit on the number of follow-ups.
should_send_followup_no_limit(p) ==
    /\ p.row.status # "replied"
    /\ ~p.row.last_inbound_at
    /\ lastOutbound[p.id] # -1
    /\ FollowupMinHours <= hours_since(lastOutbound[p.id])
    /\ hours_since(lastOutbound[p.id]) <= FollowupMaxHours

should_send_followup(p) ==
    /\ p.row.status # "replied"
    /\ ~p.row.last_inbound_at
    /\ p.row.followup_count < MaxFollowups
    /\ lastOutbound[p.id] # -1
    /\ FollowupMinHours <= hours_since(lastOutbound[p.id])
    /\ hours_since(lastOutbound[p.id]) <= FollowupMaxHours

-----------------------------------------------------------------------------
(* Worker positions and bookkeeping *)

NoMsg == [id |-> "-", from |-> "-"]
NoAnalysis == [rejected |-> FALSE, accepted |-> FALSE, requested_amount |-> None,
               needs_negotiation |-> FALSE]
NoResp == [type |-> "-", stage |-> "-", offer |-> 0, save |-> FALSE]

IdleWorker ==
    [pc |-> "idle", todo |-> {}, msg |-> NoMsg, oid |-> 0, current_offer |-> 0,
     negotiation_rounds |-> 0, analysis |-> NoAnalysis, resp |-> NoResp,
     pending |-> {}, results |-> {}, errors |-> {}]

AllIdle == \A w \in DOMAIN wk : wk[w].pc = "idle"

\* process_reply has returned: results.append(result), and back in the
\* `for num in all_nums` loop of check_inbox_for_replies.
BackToLoop(w) ==
    [wk EXCEPT ![w] = [IdleWorker EXCEPT !.pc = "inbox", !.todo = wk[w].todo,
                                         !.results = wk[w].results \cup {wk[w].msg.id},
                                         !.errors = wk[w].errors]]

NoOp == [op |-> "none", oid |-> 0, stageBefore |-> "-", sent |-> "no", msg |-> "-"]

Op(kind, o, m) ==
    [op |-> kind, oid |-> o, stageBefore |-> outreach[o].negotiation_stage,
     sent |-> "no", msg |-> m]

-----------------------------------------------------------------------------
(* The environment: mail arrives, time passes *)

Awaiting(o) == outreach[o].status = "sent" /\ lastOutbound[o] # -1

\* The age of the newest outbound mail is read for rows with status 'sent'
\* only (should_send_followup); it is not kept once a row is 'replied'.
ForgetAge(o) == [lastOutbound EXCEPT ![o] = -1]

Arrive(m, sender) ==
    /\ AllIdle
    /\ \A x \in inbox : x.id # m
    /\ visits[m] = 0
    /\ inbox' = inbox \cup {[id |-> m, from |-> sender]}
    /\ lastOp' = NoOp
    /\ UNCHANGED <<dbVars, wk, visits, delivered, calcVars, scrapeVars, utcOffset, followups>>

\* An hour passes.  The age of the last outbound mail is read only for rows
\* with status 'sent' (should_send_followup), and is advanced for those.
Tick ==
    /\ AllIdle
    /\ \E o \in DOMAIN outreach : Awaiting(o) /\ lastOutbound[o] < MaxAge
    /\ lastOutbound' = [o \in DOMAIN lastOutbound |->
                          IF Awaiting(o) THEN Min(lastOutbound[o] + 1, MaxAge)
                          ELSE lastOutbound[o]]
    /\ lastOp' = NoOp
    /\ UNCHANGED <<outreach, processed, account, campaign, inbox, wk, visits,
                   delivered, calcVars, scrapeVars, utcOffset, followups>>

-----------------------------------------------------------------------------
(* email_service.send_outreach_email and main.handle_negotiation *)

\* A variant that does not look at the daily limit.
SendOutcomes_no_limit == {"ok", "failed"}

\* send_email(): refused at the daily limit, otherwise SMTP succeeds or not.
SendOutcomes ==
    IF account.emails_sent_today >= account.daily_limit THEN {"failed"} ELSE {"ok", "failed"}

send_outreach_email(o) ==
    /\ AllIdle
    /\ \E result \in IF outreach[o].status = "sent" THEN {"refused"} ELSE SendOutcomes :
         /\ lastOp' = [Op("send_outreach", o, "-") EXCEPT
                          !.sent = IF result = "refused" THEN "no" ELSE result]
         /\ IF result = "ok"
            THEN /\ account' = [account EXCEPT !.emails_sent_today = @ + 1]
                 /\ outreach' = [outreach EXCEPT ![o].status = "sent"]
                 /\ lastOutbound' = [lastOutbound EXCEPT ![o] = 0]
            ELSE UNCHANGED <<account, outreach, lastOutbound>>
    /\ UNCHANGED <<processed, campaign, inbox, wk, visits, delivered, calcVars, scrapeVars, utcOffset, followups>>

\* POST /api/mailing-list/send-all, one contact of the loop: create_outreach,
\* send_email, and mark_outreach_sent on success.  o is the row
\* create_outreach inserts: as NewOutreach made it, with an empty thread.
send_to_mailing_list(o) ==
    /\ AllIdle
    /\ outreach[o] = NewOutreach(outreach[o].recipient_email)
    /\ lastOutbound[o] = -1
    /\ followups[o] = 0
    /\ get_available_account
    /\ \E result \in SendOutcomes :
         /\ lastOp' = [Op("bulk_send", o, "-") EXCEPT !.sent = result]
         /\ IF result = "ok"
            THEN /\ account' = [account EXCEPT !.emails_sent_today = @ + 1]
                 /\ outreach' = [outreach EXCEPT ![o].status = "sent"]
            ELSE UNCHANGED <<account, outreach>>
    /\ UNCHANGED <<lastOutbound, processed, campaign, inbox, wk, visits, delivered,
                   calcVars, scrapeVars, utcOffset, followups>>

\* POST /api/outreach/{id}/negotiate.  "raise" is get_client() failing: the
\* endpoint answers 500 after the status update.
handle_negotiation(o, new_stage) ==
    /\ AllIdle
    /\ lastOp' = Op("negotiate", o, "-")
    /\ outreach' = [outreach EXCEPT
                      ![o].status = "replied",
                      ![o].negotiation_stage = IF new_stage = "raise" THEN @ ELSE new_stage]
    /\ lastOutbound' = ForgetAge(o)
    /\ UNCHANGED <<processed, account, campaign, inbox, wk, visits,
                   delivered, calcVars, scrapeVars, utcOffset, followups>>

-----------------------------------------------------------------------------
(* auto_negotiator.run_auto_negotiator: the inbox loop, then the follow-ups *)

\* The JSON objects the classifier may answer with.
Judgments(asks) == [rejected : BOOLEAN, accepted : BOOLEAN, requested_amount : asks]

\* What the call of the classifier comes to: a JSON object in its text, text
\* without one (or one json.loads rejects), or no answer at all (get_client
\* or messages.create raising).
OracleReplies(asks) ==
    { [kind |-> "json", judgment |-> j] : j \in Judgments(asks) }
      \cup { [kind |-> k, judgment |-> [rejected |-> FALSE, accepted |-> FALSE,
                                        requested_amount |-> None]] :
               k \in {"unparsable", "unreachable"} }

\* A variant whose fallback takes silence for consent.
analyze_reply_fallback_accepts(reply) ==
    IF reply.kind = "json"
    THEN [rejected |-> reply.judgment.rejected, accepted |-> reply.judgment.accepted,
          requested_amount |-> reply.judgment.requested_amount,
          needs_negotiation |-> FALSE]
    ELSE [rejected |-> FALSE, accepted |-> TRUE, requested_amount |-> None,
          needs_negotiation |-> TRUE]

\* analyze_reply: the parsed object, or {"needs_negotiation": True} when
\* there is none; .get() of a missing key is None, which is falsy.
analyze_reply(reply) ==
    IF reply.kind = "json"
    THEN [rejected |-> reply.judgment.rejected, accepted |-> reply.judgment.accepted,
          requested_amount |-> reply.judgment.requested_amount,
          needs_negotiation |-> FALSE]
    ELSE [rejected |-> FALSE, accepted |-> FALSE, requested_amount |-> None,
          needs_negotiation |-> TRUE]

\* check_inbox_for_replies up to the loop: the search result.  A message
\* leaves the 7-day window after MaxVisits passes.
StartPass(w) ==
    /\ wk[w].pc = "idle"
    /\ wk' = [wk EXCEPT ![w] = [IdleWorker EXCEPT
                 !.pc = "inbox",
                 !.todo = { x \in inbox : visits[x.id] < MaxVisits }]]
    /\ lastOp' = NoOp
    /\ UNCHANGED <<dbVars, inbox, visits, delivered, calcVars, scrapeVars, utcOffset, followups>>

\* One iteration of the loop up to the call of process_reply and, inside
\* it, up to the first write: duplicate check, matching, terminal guard,
\* campaign and negotiation state.
VisitMessage(w) ==
    /\ wk[w].pc = "inbox"
    /\ \E x \in wk[w].todo :
         LET rest == wk[w].todo \ {x}
             o == find_matching_outreach(x.from)
             skip == [wk EXCEPT ![w].todo = rest]
         IN  IF visits[x.id] >= MaxVisits
             THEN /\ wk' = skip
                  /\ UNCHANGED <<processed, visits, lastOp>>
             ELSE /\ visits' = [visits EXCEPT ![x.id] = @ + 1]
                  /\ IF is_email_processed(x.id) \/ o = 0
                     THEN /\ wk' = skip
                          /\ lastOp' = [NoOp EXCEPT !.op = "skipped", !.msg = x.id]
                          /\ UNCHANGED processed
                     ELSE IF is_terminal_state(outreach[o])
                     THEN /\ wk' = skip
                          /\ processed' = processed \cup {x.id}
                          /\ lastOp' = Op("reply", o, x.id)
                     ELSE /\ wk' = [wk EXCEPT ![w] = [@ EXCEPT
                                      !.pc = "mark", !.todo = rest, !.msg = x, !.oid = o,
                                      !.current_offer =
                                          IF outreach[o].current_offer = 0
                                          THEN campaign.budget_min
                                          ELSE outreach[o].current_offer,
                                      !.negotiation_rounds = outreach[o].negotiation_rounds]]
                          /\ lastOp' = Op("reply", o, x.id)
                          /\ UNCHANGED processed
    /\ UNCHANGED <<outreach, lastOutbound, account, campaign, inbox, delivered,
                   calcVars, scrapeVars, utcOffset, followups>>

\* db.mark_email_processed: INSERT OR IGNORE.
MarkProcessed(w) ==
    /\ wk[w].pc = "mark"
    /\ processed' = processed \cup {wk[w].msg.id}
    /\ wk' = [wk EXCEPT ![w].pc = "log_inbound"]
    /\ UNCHANGED <<outreach, lastOutbound, account, campaign, inbox, visits,
                   delivered, lastOp, calcVars, scrapeVars, utcOffset, followups>>

\* db.add_email_thread(direction='inbound')
LogInbound(w) ==
    /\ wk[w].pc = "log_inbound"
    /\ wk' = [wk EXCEPT ![w].pc = "set_replied"]
    /\ UNCHANGED <<dbVars, inbox, visits, delivered, lastOp, calcVars, scrapeVars, utcOffset, followups>>

\* db.update_outreach(status='replied', last_inbound_at=now)
SetReplied(w) ==
    /\ wk[w].pc = "set_replied"
    /\ outreach' = [outreach EXCEPT ![wk[w].oid].status = "replied",
                                    ![wk[w].oid].last_inbound_at = TRUE]
    /\ wk' = [wk EXCEPT ![w].pc = "decide"]
    /\ lastOutbound' = ForgetAge(wk[w].oid)
    /\ UNCHANGED <<processed, account, campaign, inbox, visits,
                   delivered, lastOp, calcVars, scrapeVars, utcOffset, followups>>

\* A variant that looks at accepted before rejected.
Response_accepted_first(j, current_offer, negotiation_rounds) ==
    IF j.accepted
    THEN [type |-> "acceptance", stage |-> "deal_closed", offer |-> current_offer,
          save |-> FALSE]
    ELSE IF j.rejected
    THEN [type |-> "goodbye", stage |-> "rejected", offer |-> 0, save |-> FALSE]
    ELSE LET counter == calculate_counter_offer(current_offer, j.requested_amount,
                            campaign.budget_min, campaign.max_offer,
                            negotiation_rounds + 1)
         IN  CASE counter.action = "accept" ->
                    [type |-> "acceptance", stage |-> "deal_closed",
                     offer |-> counter.offer, save |-> TRUE]
               [] counter.action = "decline" ->
                    [type |-> "decline", stage |-> "rejected_over_budget",
                     offer |-> counter.offer, save |-> FALSE]
               [] counter.action = "final_offer" ->
                    [type |-> "final_offer", stage |-> "final_offer",
                     offer |-> counter.offer, save |-> TRUE]
               [] OTHER ->
                    [type |-> "negotiation", stage |-> "-",
                     offer |-> counter.offer, save |-> TRUE]

\* The response process_reply prepares for a judgment: its template, the
\* stage written before the send ("-" when none is), the offer named, and
\* whether offer and rounds are saved after a successful send.
Response(j, current_offer, negotiation_rounds) ==
    IF j.rejected
    THEN [type |-> "goodbye", stage |-> "rejected", offer |-> 0, save |-> FALSE]
    ELSE IF j.accepted
    THEN [type |-> "acceptance", stage |-> "deal_closed", offer |-> current_offer,
          save |-> FALSE]
    ELSE LET counter == calculate_counter_offer(current_offer, j.requested_amount,
                            campaign.budget_min, campaign.max_offer,
                            negotiation_rounds + 1)
         IN  CASE counter.action = "accept" ->
                    [type |-> "acceptance", stage |-> "deal_closed",
                     offer |-> counter.offer, save |-> TRUE]
               [] counter.action = "decline" ->
                    [type |-> "decline", stage |-> "rejected_over_budget",
                     offer |-> counter.offer, save |-> FALSE]
               [] counter.action = "final_offer" ->
                    [type |-> "final_offer", stage |-> "final_offer",
                     offer |-> counter.offer, save |-> TRUE]
               [] OTHER ->
                    [type |-> "negotiation", stage |-> "-",
                     offer |-> counter.offer, save |-> TRUE]

\* analyze_reply, get_available_account, then the branch taken: every branch
\* but the plain counter writes negotiation_stage before it sends.
Decide(w, reply) ==
    /\ wk[w].pc = "decide"
    /\ IF ~get_available_account
       THEN /\ wk' = BackToLoop(w)
            /\ UNCHANGED outreach
       ELSE LET j == analyze_reply(reply)
                r == Response(j, wk[w].current_offer, wk[w].negotiation_rounds)
            IN  /\ outreach' = IF r.stage = "-" THEN outreach
                               ELSE [outreach EXCEPT ![wk[w].oid].negotiation_stage = r.stage]
                /\ wk' = [wk EXCEPT ![w].pc = "send", ![w].resp = r,
                            ![w].analysis = j,
                            ![w].negotiation_rounds =
                                IF j.rejected \/ j.accepted THEN @ ELSE @ + 1]
    /\ UNCHANGED <<lastOutbound, processed, account, campaign, inbox, visits,
                   delivered, lastOp, calcVars, scrapeVars, utcOffset, followups>>

\* send_varied_response / email_service.send_email
SendReply(w) ==
    /\ wk[w].pc = "send"
    /\ \E result \in SendOutcomes :
         /\ lastOp' = [lastOp EXCEPT !.sent = result]
         /\ IF result = "ok"
            THEN /\ account' = [account EXCEPT !.emails_sent_today = @ + 1]
                 /\ delivered' = [delivered EXCEPT ![wk[w].msg.id].sends = @ + 1]
                 /\ wk' = [wk EXCEPT ![w].pc = "log_outbound"]
            ELSE /\ wk' = BackToLoop(w)
                 /\ UNCHANGED <<account, delivered>>
    /\ UNCHANGED <<outreach, lastOutbound, processed, campaign, inbox, visits, calcVars, scrapeVars, utcOffset, followups>>

\* db.add_email_thread(direction='outbound') after a successful send; the
\* row is 'replied' by now.
LogOutbound(w) ==
    /\ wk[w].pc = "log_outbound"
    /\ delivered' = [delivered EXCEPT ![wk[w].msg.id].outbound = @ + 1]
    /\ wk' = [wk EXCEPT ![w].pc = "persist"]
    /\ UNCHANGED <<outreach, lastOutbound, processed, account, campaign, inbox, visits, lastOp,
                   calcVars, scrapeVars, utcOffset, followups>>

\* A variant that writes 'negotiating' with every saved offer.
Persist_always_negotiating(w) ==
    /\ wk[w].pc = "persist"
    /\ LET r == wk[w].resp
           o == wk[w].oid
       IN  outreach' =
             IF ~r.save THEN outreach
             ELSE [outreach EXCEPT
                     ![o].current_offer = r.offer,
                     ![o].negotiation_rounds = wk[w].negotiation_rounds,
                     ![o].negotiation_stage = "negotiating"]
    /\ wk' = BackToLoop(w)
    /\ UNCHANGED <<lastOutbound, processed, account, campaign, inbox, visits,
                   delivered, lastOp, calcVars, scrapeVars, utcOffset, followups>>

\* db.update_outreach(ai_response=..., [current_offer, negotiation_rounds,
\* negotiation_stage='negotiating']) and the return to the loop
Persist(w) ==
    /\ wk[w].pc = "persist"
    /\ LET r == wk[w].resp
           o == wk[w].oid
       IN  outreach' =
             IF ~r.save THEN outreach
             ELSE [outreach EXCEPT
                     ![o].current_offer = r.offer,
                     ![o].negotiation_rounds = wk[w].negotiation_rounds,
                     ![o].negotiation_stage = IF r.type = "negotiation"
                                              THEN "negotiating" ELSE @]
    /\ wk' = BackToLoop(w)
    /\ UNCHANGED <<lastOutbound, processed, account, campaign, inbox, visits,
                   delivered, lastOp, calcVars, scrapeVars, utcOffset, followups>>

\* The loop is over: get_pending_outreach() for the follow-up check.
EndInboxLoop(w) ==
    /\ wk[w].pc = "inbox"
    /\ wk[w].todo = {}
    /\ wk' = [wk EXCEPT ![w] = [IdleWorker EXCEPT !.pc = "followups",
                                                  !.pending = get_pending_outreach,
                                                  !.results = wk[w].results,
                                                  !.errors = wk[w].errors]]
    /\ lastOp' = NoOp
    /\ UNCHANGED <<dbVars, inbox, visits, delivered, calcVars, scrapeVars, utcOffset, followups>>

\* One iteration of the follow-up loop: the guards of run_auto_negotiator,
\* should_send_followup, and send_followup.
FollowUp(w) ==
    /\ wk[w].pc = "followups"
    /\ \E p \in wk[w].pending :
         /\ wk' = [wk EXCEPT ![w].pending = @ \ {p}]
         /\ IF /\ ~is_terminal_state(p.row)
               /\ p.row.status = "sent"
               /\ should_send_followup(p)
               /\ get_available_account
            THEN \E result \in SendOutcomes :
                   /\ lastOp' = [Op("followup", p.id, "-") EXCEPT !.sent = result]
                   /\ IF result = "ok"
                      THEN /\ account' = [account EXCEPT !.emails_sent_today = @ + 1]
                           /\ lastOutbound' = [lastOutbound EXCEPT ![p.id] = 0]
                           /\ outreach' = [outreach EXCEPT
                                              ![p.id].followup_count = p.row.followup_count + 1,
                                              ![p.id].last_followup_at = TRUE]
                           /\ followups' = [followups EXCEPT ![p.id] = @ + 1]
                      ELSE UNCHANGED <<account, lastOutbound, outreach, followups>>
            ELSE UNCHANGED <<account, lastOutbound, outreach, lastOp, followups>>
    /\ UNCHANGED <<processed, campaign, inbox, visits, delivered, calcVars, scrapeVars, utcOffset>>

EndRun(w) ==
    /\ wk[w].pc = "followups"
    /\ wk[w].pending = {}
    /\ wk' = [wk EXCEPT ![w] = IdleWorker]
    /\ lastOp' = NoOp
    /\ UNCHANGED <<dbVars, inbox, visits, delivered, calcVars, scrapeVars, utcOffset, followups>>

\* The positions of process_reply that are calls of the database.
DatabaseCalls == {"mark", "log_inbound", "set_replied", "log_outbound", "persist"}

\* A database call of process_reply raises (sqlite3.OperationalError): the
\* handler of the loop prints the error and continues with the next message.
Raise(w) ==
    /\ wk[w].pc \in DatabaseCalls
    /\ wk' = [wk EXCEPT ![w] = [IdleWorker EXCEPT !.pc = "inbox", !.todo = wk[w].todo,
                                                  !.results = wk[w].results,
                                                  !.errors = wk[w].errors \cup {wk[w].msg.id}]]
    /\ UNCHANGED <<dbVars, inbox, visits, delivered, lastOp, calcVars, scrapeVars, utcOffset, followups>>

\* The judgment of a reply that accepts nothing, rejects nothing and names
\* no amount.
QuietJudgment ==
    [rejected |-> FALSE, accepted |-> FALSE, requested_amount |-> None,
     needs_negotiation |-> FALSE]

\* One pass of the negotiator over one new reply with a quiet judgment, the
\* send succeeding: the whole of process_reply for it.  The reply's
\* Message-ID is a fresh one and is not kept.
QuietReply(o) ==
    /\ AllIdle
    /\ outreach[o].status \in {"sent", "replied"}
    /\ ~is_terminal_state(outreach[o])
    /\ get_available_account
    /\ outreach[o].negotiation_rounds < MaxRound
    /\ LET current_offer == IF outreach[o].current_offer = 0 THEN campaign.budget_min
                            ELSE outreach[o].current_offer
           r == Response(QuietJudgment, current_offer, outreach[o].negotiation_rounds)
       IN  outreach' = [outreach EXCEPT
                          ![o].status = "replied",
                          ![o].last_inbound_at = TRUE,
                          ![o].negotiation_stage =
                              IF r.type = "negotiation" THEN "negotiating" ELSE r.stage,
                          ![o].current_offer = IF r.save THEN r.offer ELSE @,
                          ![o].negotiation_rounds = IF r.save THEN @ + 1 ELSE @]
    /\ account' = [account EXCEPT !.emails_sent_today = @ + 1]
    /\ lastOutbound' = ForgetAge(o)
    /\ lastOp' = [Op("reply", o, "-") EXCEPT !.sent = "ok"]
    /\ UNCHANGED <<processed, campaign, inbox, wk, visits, delivered, calcVars, scrapeVars,
                   utcOffset, followups>>

\* The negotiator process stops anywhere in a run and is started afresh.
Crash(w) ==
    /\ wk[w].pc # "idle"
    /\ wk' = [wk EXCEPT ![w] = IdleWorker]
    /\ UNCHANGED <<dbVars, inbox, visits, delivered, lastOp, calcVars, scrapeVars, utcOffset, followups>>

-----------------------------------------------------------------------------
(* Initial states and next-state relations *)

MessageIds == {"", "m1"}

\* From header of the mail that arrives: the creator, in another case than
\* the stored recipient_email.
Senders(m) == {"A@X.com"}

\* (budget_min, max_offer) of the campaign of an engine run.
EngineCampaigns == { <<100, 500>> }

\* requested_amount values of the judgments of an engine run.
EngineAsks == {None, Some(450), Some(490), Some(600), Some(700)}

NoCalc == [current_offer |-> 0, creator_ask |-> None, budget_min |-> 0, max_offer |-> 0,
           negotiation_round |-> 0]

\* The callers of run_scraper: the scheduler's job, in a thread of its pool,
\* and the endpoint, in the thread of the event loop.
ScrapeCallers == {"scheduled_scrape", "trigger_scrape"}

\* `if scraper_running:` - return when it is set, go on otherwise.
CheckFlag(t) ==
    /\ scrape[t].pc = "idle"
    /\ scrape[t].started < MaxScrapes
    /\ scrape' = [scrape EXCEPT ![t].pc = IF scraper_running THEN "idle" ELSE "checked",
                                ![t].skipped = scraper_running]
    /\ UNCHANGED <<scraper_running, engineVars, calcVars>>

\* `scraper_running = True`, and into the try with run_scraper.
SetFlag(t) ==
    /\ scrape[t].pc = "checked"
    /\ scraper_running' = TRUE
    /\ scrape' = [scrape EXCEPT ![t].pc = "running", ![t].started = @ + 1]
    /\ UNCHANGED <<engineVars, calcVars>>

\* run_scraper returns or raises; `finally: scraper_running = False`.
EndScrape(t) ==
    /\ scrape[t].pc = "running"
    /\ \E outcome \in {"returned", "raised"} :
          scrape' = [scrape EXCEPT ![t].pc = "idle", ![t].last = outcome]
    /\ scraper_running' = FALSE
    /\ UNCHANGED <<engineVars, calcVars>>

\* The tables after init_db and the creation of one campaign, one sending
\* account with the given daily_limit, and the outreach rows.
EngineInitWith(workers, ids, c, limit) ==
    /\ outreach = [o \in ids |-> NewOutreach("a@x.com")]
    /\ lastOutbound = [o \in ids |-> -1]
    /\ processed = {}
    /\ account = [emails_sent_today |-> 0, daily_limit |-> limit]
    /\ campaign = [budget_min |-> c[1], max_offer |-> c[2]]
    /\ inbox = {}
    /\ wk = [w \in workers |-> IdleWorker]
    /\ visits = [m \in MessageIds |-> 0]
    /\ delivered = [m \in MessageIds |-> [sends |-> 0, outbound |-> 0]]
    /\ lastOp = NoOp
    /\ followups = [o \in ids |-> 0]
    /\ scraper_running = FALSE
    /\ scrape = [t \in ScrapeCallers |->
                    [pc |-> "idle", started |-> 0, skipped |-> FALSE, last |-> "none"]]

EngineInit(workers, ids, c) ==
    EngineInitWith(workers, ids, c, DailyLimit)

\* outreach_emails ids and negotiator processes of the runs.
OutreachIds == {1}
Workers == {1}
ConcWorkers == {1, 2}

\* Outcomes of generate_negotiation_response the negotiate endpoint is tried
\* with: new_stage values the prompt offers ("negotiating" is also the
\* endpoint's default), and the call raising.
NegotiateStages == {"negotiating", "deal_closed", "declined", "raise"}

Init ==
    /\ \E c \in EngineCampaigns : EngineInit(Workers, OutreachIds, c)
    /\ utcOffset = 0
    /\ calcArgs = NoCalc
    /\ calcResult = NoResult

WorkerStep(w) ==
    \/ StartPass(w)
    \/ VisitMessage(w)
    \/ MarkProcessed(w)
    \/ LogInbound(w)
    \/ SetReplied(w)
    \/ \E reply \in OracleReplies(EngineAsks) : Decide(w, reply)
    \/ SendReply(w)
    \/ LogOutbound(w)
    \/ Persist(w)
    \/ EndInboxLoop(w)
    \/ FollowUp(w)
    \/ EndRun(w)

Next ==
    \/ \E m \in MessageIds : \E s \in Senders(m) : Arrive(m, s)
    \/ Tick
    \/ \E o \in OutreachIds : send_outreach_email(o)
    \/ \E o \in OutreachIds, st \in NegotiateStages : handle_negotiation(o, st)
    \/ \E w \in Workers : WorkerStep(w)
    \/ \E w \in Workers : Crash(w)

\* One negotiator process, one operation at a time.
Spec == Init /\ [][Next]_vars

-----------------------------------------------------------------------------
(* Calculator runs: every input of the bounded domain, one call each *)

\* (budget_min, max_offer) of the campaigns tried; budget_min <= max_offer.
CalcCampaigns ==
    { <<100, 500>>, <<100, 140>>, <<110, 145>>, <<120, 500>>, <<400, 500>>,
      <<300, 500>>, <<650, 750>> }

CalcAsks == {None} \cup { Some(10 * k) : k \in 0..MaxAskK } \cup { Some(133), Some(490), Some(475) }

InitCalc ==
    /\ \E c \in CalcCampaigns, a \in CalcAsks, r \in 0..MaxRound, cur \in {0, 1} :
          calcArgs = [current_offer |-> IF cur = 0 THEN 0 ELSE c[1],
                      creator_ask |-> a,
                      budget_min |-> c[1],
                      max_offer |-> c[2],
                      negotiation_round |-> r]
    /\ calcResult = NoResult
    /\ EngineInit(Workers, OutreachIds, <<100, 500>>)
    /\ utcOffset = 0

CallCalculator ==
    /\ calcResult = NoResult
    /\ calcResult' = calculate_counter_offer(calcArgs.current_offer, calcArgs.creator_ask,
                                             calcArgs.budget_min, calcArgs.max_offer,
                                             calcArgs.negotiation_round)
    /\ UNCHANGED <<calcArgs, engineVars, scrapeVars>>

NextCalc == CallCalculator

SpecCalc == InitCalc /\ [][NextCalc]_vars

-----------------------------------------------------------------------------
(* Two negotiator processes on one mailbox and one database *)

InitConc ==
    /\ EngineInit(ConcWorkers, OutreachIds, <<100, 500>>)
    /\ utcOffset = 0
    /\ calcArgs = NoCalc
    /\ calcResult = NoResult

NextConc ==
    \/ Arrive("m1", "A@X.com")
    \/ \E o \in OutreachIds : send_outreach_email(o)
    \/ \E w \in ConcWorkers : WorkerStep(w)

SpecConc == InitConc /\ [][NextConc]_vars

-----------------------------------------------------------------------------
(* One negotiator process on a host in some time zone, with database calls
   that may raise *)

\* Offsets of the host's local time from UTC, in hours.
HostOffsets == {-5, 0, 3}

InitDeploy ==
    /\ \E limit \in DailyLimit..MaxDailyLimit :
          EngineInitWith(Workers, OutreachIds, <<100, 500>>, limit)
    /\ utcOffset \in HostOffsets
    /\ calcArgs = NoCalc
    /\ calcResult = NoResult

NextDeploy ==
    \/ Arrive("m1", "A@X.com")
    \/ Tick
    \/ \E o \in OutreachIds : send_outreach_email(o)
    \/ \E w \in Workers : WorkerStep(w)
    \/ \E w \in Workers : Raise(w)

SpecDeploy == InitDeploy /\ [][NextDeploy]_vars

-----------------------------------------------------------------------------
(* One negotiator process, with outreach sent one by one or by the bulk
   send of the mailing list *)

InitBulk ==
    /\ EngineInit(Workers, OutreachIds, <<100, 500>>)
    /\ utcOffset = 0
    /\ calcArgs = NoCalc
    /\ calcResult = NoResult

NextBulk ==
    \/ Arrive("m1", "A@X.com")
    \/ Tick
    \/ \E o \in OutreachIds : send_outreach_email(o)
    \/ \E o \in OutreachIds : send_to_mailing_list(o)
    \/ \E w \in Workers : WorkerStep(w)

SpecBulk == InitBulk /\ [][NextBulk]_vars

-----------------------------------------------------------------------------
(* A creator whose replies say nothing: every reply has a quiet judgment and
   every send succeeds *)

\* (budget_min, max_offer) of the campaigns tried; budget_min <= max_offer.
QuietCampaigns ==
    { c \in {100, 110, 120, 300, 400, 650} \X {120, 140, 145, 500, 750} : c[1] <= c[2] }

\* email_accounts.daily_limit as add_email_account sets it by default.
DefaultDailyLimit == 50

InitQuiet ==
    /\ \E c \in QuietCampaigns :
          EngineInitWith(Workers, OutreachIds, c, DefaultDailyLimit)
    /\ utcOffset = 0
    /\ calcArgs = NoCalc
    /\ calcResult = NoResult

NextQuiet ==
    \/ \E o \in OutreachIds : send_to_mailing_list(o)
    \/ \E o \in OutreachIds : QuietReply(o)

SpecQuiet == InitQuiet /\ [][NextQuiet]_vars

-----------------------------------------------------------------------------
(* Two outreach records for one creator *)

TwoOutreachIds == {1, 2}

\* new_stage values of the negotiate endpoint in the runs with two records.
TwoNegotiateStages == {"negotiating", "deal_closed"}

InitTwo ==
    /\ EngineInit(Workers, TwoOutreachIds, <<100, 500>>)
    /\ utcOffset = 0
    /\ calcArgs = NoCalc
    /\ calcResult = NoResult

NextTwo ==
    \/ Arrive("m1", "A@X.com")
    \/ \E o \in TwoOutreachIds : send_outreach_email(o)
    \/ \E o \in TwoOutreachIds, st \in TwoNegotiateStages : handle_negotiation(o, st)
    \/ \E w \in Workers : WorkerStep(w)

SpecTwo == InitTwo /\ [][NextTwo]_vars

-----------------------------------------------------------------------------
(* The scheduler's scrape job and the scrape endpoint, in two threads *)

InitScrape ==
    /\ EngineInit(Workers, OutreachIds, <<100, 500>>)
    /\ utcOffset = 0
    /\ calcArgs = NoCalc
    /\ calcResult = NoResult

NextScrape ==
    \/ \E t \in ScrapeCallers : CheckFlag(t)
    \/ \E t \in ScrapeCallers : SetFlag(t)
    \/ \E t \in ScrapeCallers : EndScrape(t)

SpecScrape == InitScrape /\ [][NextScrape]_vars

-----------------------------------------------------------------------------
(* Properties *)

\* The stages the specification calls terminal.
SpecTerminalStages == {"deal_closed", "rejected", "rejected_over_budget"}

\* A worker is inside process_reply, between the guards and the send.
InProcessReply(w) == wk[w].pc \in {"mark", "log_inbound", "set_replied", "decide", "send"}

\* C1: a message the inbox loop has been given in two passes has produced at
\* most one outbound send and at most one outbound thread row: the second
\* pass adds nothing to what the first one did.
C1_SecondPassIsNoOp ==
    \A m \in MessageIds :
        visits[m] >= 2 => delivered[m].sends <= 1 /\ delivered[m].outbound <= 1

\* C2: a reply that reaches an outreach in deal_closed, rejected or
\* rejected_over_budget sends nothing and leaves negotiation_stage as it was,
\* whatever the classifier would have said about it.
C2_TerminalReplySendsNothing ==
    (lastOp.op = "reply" /\ lastOp.stageBefore \in SpecTerminalStages) =>
        /\ lastOp.sent = "no"
        /\ outreach[lastOp.oid].negotiation_stage = lastOp.stageBefore
        /\ \A w \in DOMAIN wk : wk[w].msg.id # lastOp.msg \/ ~InProcessReply(w)

\* A reply has met an outreach closed as rejected_over_budget and has been
\* recorded as processed.
C2_Witness ==
    /\ lastOp.op = "reply"
    /\ lastOp.stageBefore = "rejected_over_budget"
    /\ lastOp.msg \in processed
    /\ visits[lastOp.msg] >= 1

\* C3: no operation (reply, follow-up, send_outreach_email) delivers an
\* outbound email for a record whose stage was terminal when it began.
C3_NoSendOnceTerminal ==
    lastOp.sent = "ok" => lastOp.stageBefore \notin SpecTerminalStages

\* C4: a terminal negotiation_stage is never changed by any step.
C4_TerminalAbsorbing ==
    [][\A o \in DOMAIN outreach :
          outreach[o].negotiation_stage \in SpecTerminalStages =>
              outreach'[o].negotiation_stage = outreach[o].negotiation_stage]_vars

\* C5: when the send of process_reply has failed, negotiation_stage is what
\* it was before the call.
C5_FailedSendKeepsStage ==
    (lastOp.op = "reply" /\ lastOp.sent = "failed") =>
        outreach[lastOp.oid].negotiation_stage = lastOp.stageBefore

\* C6: a message for which a reply has been dispatched is never taken into
\* process_reply again, also when the process has stopped in between and a
\* new pass finds the message.
C6_NoResendAfterStop ==
    \A w \in DOMAIN wk : InProcessReply(w) => delivered[wk[w].msg.id].sends = 0

\* C7: with two passes running at once every message id gets at most one
\* outbound send.
C7_AtMostOnceConcurrently ==
    \A m \in MessageIds : m # "" => delivered[m].sends <= 1

\* C8: the offer the calculator returns is at most max_offer.
C8_OfferAtMostMax ==
    calcResult # NoResult => calcResult.offer <= calcArgs.max_offer

\* C9 as stated: every returned offer, whatever the action, is a multiple
\* of 50.
C9_AllOffersMultipleOf50 ==
    calcResult # NoResult => calcResult.offer % 50 = 0

\* C9 amended: a counter offer is a multiple of 50; accept returns the
\* creator's ask as given, final_offer and decline return max_offer as given.
C9_CounterOffersMultipleOf50 ==
    calcResult # NoResult =>
        /\ calcResult.action = "counter" => calcResult.offer % 50 = 0
        /\ calcResult.action = "accept" => calcResult.offer = Val(calcArgs.creator_ask)
        /\ calcResult.action \in {"final_offer", "decline"} =>
               calcResult.offer = calcArgs.max_offer

\* A counter offer that needed rounding: (130 + 133) / 2 = 131.5.
C9_Witness ==
    /\ calcResult.action = "counter"
    /\ calcArgs.creator_ask = Some(133)
    /\ calcArgs.budget_min = 100
    /\ calcArgs.negotiation_round = 3

\* C10: a counter or final_offer round never persists a current_offer below
\* the one in force before the reply (budget_min on first contact).
C10_OfferNeverDecreases ==
    [][\A o \in DOMAIN outreach :
          (/\ outreach'[o].current_offer # outreach[o].current_offer
           /\ outreach'[o].negotiation_stage \in {"negotiating", "final_offer"}) =>
              outreach'[o].current_offer >=
                  (IF outreach[o].current_offer = 0 THEN campaign.budget_min
                   ELSE outreach[o].current_offer)]_vars

\* C11: process_reply applies the judgment in strict priority.  A rejection
\* moves the outreach to rejected and prepares a goodbye without an amount,
\* whatever else the judgment says; otherwise an acceptance moves it to
\* deal_closed at the current offer, and the stored current_offer stays as it
\* is; only otherwise the calculator runs (a negotiation round is counted).
C11_JudgmentPriority ==
    [][\A w \in DOMAIN wk :
          LET o == wk[w].oid IN
          /\ (wk[w].pc = "decide" /\ wk'[w].pc = "send") =>
                LET a == wk'[w].analysis
                    r == wk'[w].resp
                IN  /\ a.rejected =>
                          /\ outreach'[o].negotiation_stage = "rejected"
                          /\ r.type = "goodbye" /\ r.offer = 0
                          /\ wk'[w].negotiation_rounds = wk[w].negotiation_rounds
                    /\ (~a.rejected /\ a.accepted) =>
                          /\ outreach'[o].negotiation_stage = "deal_closed"
                          /\ r.type = "acceptance" /\ r.offer = wk[w].current_offer
                          /\ wk'[w].negotiation_rounds = wk[w].negotiation_rounds
                    /\ (~a.rejected /\ ~a.accepted) =>
                          wk'[w].negotiation_rounds = wk[w].negotiation_rounds + 1
          /\ (wk[w].pc \in {"send", "log_outbound", "persist"}
                 /\ (wk[w].analysis.rejected \/ wk[w].analysis.accepted)) =>
                /\ outreach'[o].current_offer = outreach[o].current_offer
                /\ outreach'[o].negotiation_stage = outreach[o].negotiation_stage]_vars

\* A judgment that says rejected and accepted and names an amount has made
\* the outreach rejected, and its goodbye has been sent.
C11_Witness ==
    \E w \in DOMAIN wk :
        /\ wk[w].pc = "log_outbound"
        /\ wk[w].analysis.rejected /\ wk[w].analysis.accepted
        /\ wk[w].analysis.requested_amount # None
        /\ wk[w].resp.type = "goodbye"
        /\ outreach[wk[w].oid].negotiation_stage = "rejected"

\* negotiation_stage for an action of the calculator.
StageOfAction(action) ==
    CASE action = "accept" -> "deal_closed"
      [] action = "counter" -> "negotiating"
      [] action = "final_offer" -> "final_offer"
      [] OTHER -> "rejected_over_budget"

\* C12: when the calculator has been asked and the reply has been sent, the
\* stage process_reply leaves behind is the one of the calculator's action,
\* and an accept stores the returned offer.
C12_StageFollowsAction ==
    [][\A w \in DOMAIN wk :
          (/\ wk[w].pc = "persist" /\ wk'[w].pc = "inbox"
           /\ ~wk[w].analysis.rejected /\ ~wk[w].analysis.accepted) =>
              LET o == wk[w].oid
                  c == calculate_counter_offer(wk[w].current_offer,
                           wk[w].analysis.requested_amount, campaign.budget_min,
                           campaign.max_offer, wk[w].negotiation_rounds)
              IN  /\ outreach'[o].negotiation_stage = StageOfAction(c.action)
                  /\ c.action = "accept" => outreach'[o].current_offer = c.offer]_vars

\* A reply asking for more than max_offer has been answered with the final
\* offer: the stage is final_offer and the offer is stored.
C12_Witness ==
    /\ lastOp.op = "reply" /\ lastOp.sent = "ok"
    /\ \A w \in DOMAIN wk : wk[w].pc = "inbox"
    /\ outreach[lastOp.oid].negotiation_stage = "final_offer"
    /\ outreach[lastOp.oid].current_offer = campaign.max_offer

\* C15: a reply the classifier did not judge (no answer, or no parsable
\* object) never moves the outreach to deal_closed, rejected or
\* rejected_over_budget: process_reply answers it with a counter or the
\* final offer.
C15_FallbackNeverCloses ==
    [][\A w \in DOMAIN wk :
          /\ wk'[w].analysis.needs_negotiation =>
                /\ ~wk'[w].analysis.rejected /\ ~wk'[w].analysis.accepted
                /\ wk'[w].analysis.requested_amount = None
                /\ wk'[w].resp.type \in {"negotiation", "final_offer"}
                /\ outreach'[wk'[w].oid].negotiation_stage \notin SpecTerminalStages
          /\ wk[w].analysis.needs_negotiation =>
                outreach'[wk[w].oid].negotiation_stage \notin SpecTerminalStages]_vars

\* A reply the classifier did not judge has been answered.
C15_Witness ==
    \E w \in DOMAIN wk :
        /\ wk[w].pc = "persist"
        /\ wk[w].analysis.needs_negotiation
        /\ delivered[wk[w].msg.id].sends >= 1

\* The action the specification's rules choose for an ask: within max_offer,
\* accept up to the round's baseline, counter up to 95% of max_offer, accept
\* above; beyond max_offer, final_offer up to 130% of it, decline above.
\* Products are exact.
ActionForAsk(ask, budget_min, max_offer, negotiation_round) ==
    LET base100 == BaseOffer100(budget_min, max_offer, negotiation_round)
    IN  IF ask <= max_offer
        THEN IF 100 * ask <= base100 THEN "accept"
             ELSE IF 100 * ask <= 95 * max_offer THEN "counter"
             ELSE "accept"
        ELSE IF 100 * ask <= 130 * max_offer THEN "final_offer"
             ELSE "decline"

\* C13: for an ask that is present, the calculator's action is the one the
\* thresholds select (baseline from the six-step schedule at index
\* min(round, 5)); accept is at the ask, final_offer at max_offer.
C13_ActionByThresholds ==
    (calcResult # NoResult /\ calcArgs.creator_ask # None
        /\ Val(calcArgs.creator_ask) > 0) =>
        LET ask == Val(calcArgs.creator_ask)
            action == ActionForAsk(ask, calcArgs.budget_min, calcArgs.max_offer,
                                   calcArgs.negotiation_round)
        IN  /\ calcResult.action = action
            /\ action = "accept" => calcResult.offer = ask
            /\ action = "final_offer" => calcResult.offer = calcArgs.max_offer

\* v is a multiple of 50 nearest to n/d dollars.
NearestFifty(v, n, d) ==
    /\ v % 50 = 0
    /\ d * v - n <= 25 * d
    /\ n - d * v <= 25 * d

\* The round's baseline clamped to max_offer, times 100.
ClampedBase100(budget_min, max_offer, negotiation_round) ==
    Min(BaseOffer100(budget_min, max_offer, negotiation_round), 100 * max_offer)

\* C14 as stated: a counter to an ask is the multiple of 50 nearest to the
\* midpoint of baseline and ask; without an ask the action is final_offer at
\* max_offer exactly when the baseline has reached max_offer, and otherwise a
\* counter at the clamped baseline rounded to the nearest 50.
C14_OfferValuesByBaseline ==
    calcResult # NoResult =>
        LET base100 == BaseOffer100(calcArgs.budget_min, calcArgs.max_offer,
                                    calcArgs.negotiation_round)
        IN  IF HasAsk(calcArgs.creator_ask)
            THEN calcResult.action = "counter" =>
                     NearestFifty(calcResult.offer,
                                  base100 + 100 * Val(calcArgs.creator_ask), 200)
            ELSE IF base100 >= 100 * calcArgs.max_offer
                 THEN /\ calcResult.action = "final_offer"
                      /\ calcResult.offer = calcArgs.max_offer
                 ELSE /\ calcResult.action = "counter"
                      /\ NearestFifty(calcResult.offer, base100, 100)

\* C14 amended: as above for a counter to an ask; without an ask the clamped
\* baseline is rounded to the nearest 50, and the action is final_offer at
\* max_offer exactly when the rounded value is at least max_offer, otherwise
\* a counter at the rounded value.
C14_OfferValuesByRoundedBaseline ==
    calcResult # NoResult =>
        LET base100 == BaseOffer100(calcArgs.budget_min, calcArgs.max_offer,
                                    calcArgs.negotiation_round)
            clamped100 == ClampedBase100(calcArgs.budget_min, calcArgs.max_offer,
                                         calcArgs.negotiation_round)
        IN  IF HasAsk(calcArgs.creator_ask)
            THEN calcResult.action = "counter" =>
                     NearestFifty(calcResult.offer,
                                  base100 + 100 * Val(calcArgs.creator_ask), 200)
            ELSE \E k \in 0..(calcArgs.max_offer \div 50 + 1) :
                     /\ NearestFifty(50 * k, clamped100, 100)
                     /\ IF 50 * k >= calcArgs.max_offer
                        THEN /\ calcResult.action = "final_offer"
                             /\ calcResult.offer = calcArgs.max_offer
                        ELSE /\ calcResult.action = "counter"
                             /\ calcResult.offer = 50 * k

\* Baseline 300 and ask 450 have given a counter of 400.
C14_Witness ==
    /\ calcArgs.budget_min = 300 /\ calcArgs.negotiation_round = 1
    /\ calcArgs.creator_ask = Some(450)
    /\ calcResult.action = "counter" /\ calcResult.offer = 400

\* C16: a follow-up is sent for an outreach only if, at that moment, its
\* status is 'sent', its stage is not terminal, last_inbound_at is unset,
\* followup_count is below 2, and between 2 and 6 hours have passed since
\* the last outbound thread entry.
C16_FollowupOnlyWhenEligible ==
    [][\A o \in OutreachIds :
          followups'[o] > followups[o] =>
              /\ outreach[o].status = "sent"
              /\ outreach[o].negotiation_stage \notin SpecTerminalStages
              /\ ~is_terminal_state(outreach[o])
              /\ ~outreach[o].last_inbound_at
              /\ outreach[o].followup_count < 2
              /\ 2 <= lastOutbound[o]
              /\ lastOutbound[o] <= 6]_vars

C19_DailyLimitKept ==
    /\ [](account.emails_sent_today <= account.daily_limit)
    /\ [][account' # account =>
            /\ account.emails_sent_today < account.daily_limit
            /\ account'.emails_sent_today = account.emails_sent_today + 1
            /\ account'.daily_limit = account.daily_limit
            /\ lastOp'.sent = "ok"]_vars
    /\ [][\A w \in Workers :
            \/ wk[w].pc = "decide" /\ wk'[w].pc = "send"
            \/ wk[w].pc = "followups" /\ lastOp' # lastOp /\ lastOp'.op = "followup"
            => account.emails_sent_today < account.daily_limit]_vars

\* The account is at its limit and send_email has just refused a send.
C19_Witness ==
    /\ account.emails_sent_today = account.daily_limit
    /\ lastOp.op = "send_outreach"
    /\ lastOp.sent = "failed"
    /\ outreach[lastOp.oid].status # "sent"

\* The inbox loop has received a reply of the creator of outreach o and
\* matched it: the message is recorded in processed_emails, which is done
\* for matched messages only.
ReplyReceived(o) ==
    \E x \in inbox :
        /\ x.id \in processed
        /\ Lower(x.from) = Lower(outreach[o].recipient_email)

\* C18: once the inbox loop has received a reply of the creator and matched
\* it to an outreach, no follow-up is sent for that outreach, in the same
\* pass or in a later one.
C18_NoFollowupAfterReply ==
    [][\A o \in OutreachIds :
          ReplyReceived(o) => followups'[o] = followups[o]]_vars

\* A message whose processing raised has a result among the results of the
\* pass.
ErrorsHaveResults == \A w \in Workers : wk[w].errors \subseteq wk[w].results

\* C20: a failure raised while one message is processed becomes a result of
\* that message in the results the pass returns; the loop goes on with the
\* remaining messages, and the run ends without raising.
C20_RaisedFailureBecomesResult ==
    /\ []ErrorsHaveResults
    /\ [][\A w \in Workers :
            wk'[w].errors # wk[w].errors =>
                /\ wk'[w].pc = "inbox"
                /\ wk'[w].todo = wk[w].todo]_vars

\* The stages the state machine allows process_reply to write from a stage.
AllowedNextStages(stage) ==
    CASE stage = "final_offer" -> {"final_offer"} \cup TERMINAL_STATES
      [] stage = "negotiating" -> {"negotiating", "final_offer"} \cup TERMINAL_STATES
      [] OTHER -> {"initial", "negotiating", "final_offer"} \cup TERMINAL_STATES

\* C21: a write of negotiation_stage by process_reply follows the state
\* machine: from final_offer to final_offer or a terminal stage, never to
\* negotiating; from negotiating to negotiating, final_offer or a terminal
\* stage.
C21_StageMachine ==
    [][\A w \in Workers :
          wk[w].pc \in {"decide", "persist"} =>
              outreach'[wk[w].oid].negotiation_stage \in
                  AllowedNextStages(outreach[wk[w].oid].negotiation_stage)]_vars

\* C22: the persisted negotiation_rounds counts the counter-offers sent: it
\* changes only when a counter-offer has been sent, then by exactly 1, and
\* acceptance, rejection, decline and final offer leave it as it was.
C22_RoundsCountCounterOffers ==
    [][\A o \in OutreachIds :
          outreach'[o].negotiation_rounds # outreach[o].negotiation_rounds =>
              /\ outreach'[o].negotiation_rounds = outreach[o].negotiation_rounds + 1
              /\ \E w \in Workers :
                    /\ wk[w].pc = "persist"
                    /\ wk[w].oid = o
                    /\ wk[w].resp.type = "negotiation"]_vars

\* C23: every successful send for an outreach, by the single send, the bulk
\* send, a follow-up or a reply of the negotiator, is followed by one
\* outbound entry in the outreach's thread; hence every outreach with
\* status 'sent' has an outbound thread entry to time the follow-up from.
C23_SendsAreLogged ==
    /\ [](\A o \in OutreachIds : outreach[o].status = "sent" => lastOutbound[o] # -1)
    /\ [][(account' # account /\ lastOp'.op \in {"send_outreach", "bulk_send", "followup"})
            => lastOutbound'[lastOp'.oid] = 0]_vars
    /\ [](\A w \in Workers : wk[w].pc \in {"idle", "inbox", "followups"} =>
            \A m \in MessageIds : delivered[m].outbound = delivered[m].sends)

\* C24: when process_reply returns an error result (here: no account with
\* quota left), it has sent nothing and changed nothing: the message is not
\* recorded as processed, and stage and negotiation_rounds are as they were.
C24_ErrorResultChangesNothing ==
    [][\A w \in Workers :
          (wk[w].pc = "decide" /\ ~get_available_account /\ wk'[w].pc = "inbox"
              /\ wk[w].msg.id # "") =>
              LET o == wk[w].oid
              IN  /\ wk[w].msg.id \notin processed'
                  /\ outreach'[o].negotiation_stage = lastOp.stageBefore
                  /\ outreach'[o].negotiation_rounds = wk[w].negotiation_rounds
                  /\ delivered'[wk[w].msg.id].sends = 0]_vars

\* C25: when process_reply has closed a deal and sent the confirmation, the
\* record is in deal_closed with current_offer equal to the amount the
\* confirmation names, whether the creator accepted the current offer or
\* the calculator accepted the creator's ask.
C25_ClosedAtAgreedAmount ==
    [][\A w \in Workers :
          (wk[w].pc = "persist" /\ wk'[w].pc = "inbox"
              /\ wk[w].resp.type = "acceptance") =>
              /\ outreach'[wk[w].oid].negotiation_stage = "deal_closed"
              /\ outreach'[wk[w].oid].current_offer = wk[w].resp.offer]_vars

\* C26: a counter to an ask that is present is at most the ask and at least
\* the round's baseline offer.
C26_CounterBetweenBaselineAndAsk ==
    (calcResult # NoResult /\ calcResult.action = "counter"
        /\ HasAsk(calcArgs.creator_ask)) =>
        /\ calcResult.offer <= Val(calcArgs.creator_ask)
        /\ 100 * calcResult.offer >= BaseOffer100(calcArgs.budget_min, calcArgs.max_offer,
                                                   calcArgs.negotiation_round)

\* C27: when every reply is quiet and every send succeeds, the outreach is
\* in final_offer with current_offer = max_offer after the fifth reply at
\* the latest, and a later quiet reply keeps it there.
C27_QuietRepliesReachMaxOffer ==
    /\ [](\A o \in OutreachIds :
            outreach[o].negotiation_rounds >= 5 =>
                /\ outreach[o].negotiation_stage = "final_offer"
                /\ outreach[o].current_offer = campaign.max_offer)
    /\ [][\A o \in OutreachIds :
            (outreach[o].negotiation_stage = "final_offer"
                /\ outreach[o].current_offer = campaign.max_offer) =>
                /\ outreach'[o].negotiation_stage = "final_offer"
                /\ outreach'[o].current_offer = campaign.max_offer]_vars

\* The records a message from the sender may belong to: status sent or
\* replied, recipient equal to the sender without regard to case.
Candidates(sender) ==
    { o \in DOMAIN outreach :
        /\ outreach[o].status \in {"sent", "replied"}
        /\ Lower(outreach[o].recipient_email) = Lower(sender) }

\* C28: a new message whose sender has several records, one of them not in
\* a terminal stage, is processed against a record that is not terminal; a
\* message whose sender has no record causes no send and no change.
C28_OpenRecordIsChosen ==
    [][\A w \in Workers : \A x \in wk[w].todo :
          (wk[w].pc = "inbox" /\ visits'[x.id] = visits[x.id] + 1
              /\ ~is_email_processed(x.id)) =>
              /\ (\E o \in Candidates(x.from) : ~is_terminal_state(outreach[o])) =>
                     /\ wk'[w].pc = "mark"
                     /\ ~is_terminal_state(outreach[wk'[w].oid])
              /\ Candidates(x.from) = {} =>
                     UNCHANGED <<outreach, processed, account, delivered>>]_vars

\* C29: send_outreach_email delivers the initial email of a record at most
\* once: once the record has been sent (its status is sent or replied), a
\* call sends nothing and leaves the status as it is.
C29_InitialEmailSentOnce ==
    [][\A o \in OutreachIds :
          (lastOp' # lastOp /\ lastOp'.op = "send_outreach" /\ lastOp'.oid = o
              /\ outreach[o].status \in {"sent", "replied"}) =>
              /\ lastOp'.sent # "ok"
              /\ account' = account
              /\ outreach'[o].status = outreach[o].status]_vars

\* The callers that are inside run_scraper.
Scraping == { t \in ScrapeCallers : scrape[t].pc = "running" }

\* C30: at most one run_scraper is in progress at a time, and
\* scraper_running is false whenever none is, also after a scrape raised.
C30_ScraperMutualExclusion ==
    /\ Cardinality(Scraping) <= 1
    /\ Scraping = {} => ~scraper_running

====
